---- MODULE Spec2Model ----
(***************************************************************************)
(* Model of the web terminal session manager of src/ssh.py:                *)
(* WebTerminalSession (one pty + shell + output pump per session),         *)
(* WebTerminalManager (the session map and the cleanup thread) and the     *)
(* SSH plugin object: on_loaded, the ready test and the terminal and       *)
(* status endpoints of on_webhook, the service status check, on_unload.    *)
(*                                                                         *)
(* Threads: request threads (Api) run one webhook handler at a time, the   *)
(* cleanup thread runs _cleanup_sessions, and every session has an output  *)
(* thread running _read_unix_output.  The code takes no lock, so a handler *)
(* is split where it blocks or where another thread can change what it     *)
(* read: create_session (id / construct / insert), close_session           *)
(* (get+close / del), the cleanup sweep (one is_alive per step, one        *)
(* close_session in two steps), the pump (loop test / select+read / put)   *)
(* and close() itself, which stays in os.waitpid while the shell it        *)
(* signalled has not exited.                                               *)
(***************************************************************************)
EXTENDS Integers, Sequences, FiniteSets, TLC

(* ------------------------------ bounds -------------------------------- *)
\* request threads
NApi == 2
\* create_session calls in Spec
MaxCreate == 1
\* create_session calls in SpecTwo
TwoCreate == 2
\* create_session calls in SpecOps
OpsCreate == 2
\* create_session calls in SpecIO
IOCreate == 1
\* create_session calls in SpecHist
HistCreate == 1
\* create_session calls in SpecEcho
EchoCreate == 1
\* clock values 0..MaxTime (seconds of time.time(), scaled)
MaxTime == 2
\* create_session calls in SpecSpawn
SpawnCreate == 2
\* create_session calls in SpecTurn
TurnCreate == 1
\* create_session calls in SpecAct
ActCreate == 1
\* chunks one shell emits in SpecAct
ActChunks == 1
\* create_session calls in SpecLoad
LoadCreate == 1
\* create_session calls in SpecUnload
UnloadCreate == 2
\* create_session calls in SpecEof
EofCreate == 2
\* create_session calls in SpecPump
PumpCreate == 2
\* chunks one shell emits in SpecPump
PumpChunks == 1
\* chunks one shell emits in SpecIO
MaxChunks == 4
\* chunks one shell emits in Spec
LifeChunks == 1
\* chunks one shell emits in SpecEcho
EchoChunks == 3
\* Queue(maxsize=1000) of src/ssh.py:40, scaled
QueueMaxsize == 2
\* the "> 50" of src/ssh.py:186, scaled
HistoryMax == 2
\* the "> 1800" of src/ssh.py:253, scaled
IdleTimeout == 1

(* ------------------------- program constants -------------------------- *)
\* options['max_sessions'], src/ssh.py:335 (never read by the code)
max_sessions == 5

\* create_session calls in SpecCap: one more than max_sessions
CapCreate == max_sessions + 1

Api == 1..NApi
Obj == 1..CapCreate
FdNums == 1..CapCreate
PidNums == 1..CapCreate
NoObj == 0
NoId == <<-1, -1>>
\* an id no create_session ever returned
FabricatedId == <<-2, -2>>

VARIABLES
    now,              \* time.time()
    sessions,         \* WebTerminalManager.sessions: the items id -> session object, in insertion order
    session_counter,  \* WebTerminalManager.session_counter
    nobj,             \* number of WebTerminalSession objects constructed with a pty
    sess,             \* fields of every WebTerminalSession object
    fds,              \* the process's descriptor table: fd -> object whose pty master it is, 0 = closed
    pids,             \* the kernel's pid table: pid -> object whose shell it names, 0 = no such process
    shell,            \* the shell forked for each object: none / running / busy / zombie / reaped
    pump,             \* each session's output thread: position and the chunk it holds
    api,              \* each request thread: position and locals
    resp,             \* the response on_webhook returned in the step just taken, if any
    reaper,           \* the cleanup thread: position and locals
    log,              \* history of the run: calls issued, chunks emitted / enqueued / delivered
    plugin,           \* the SSH plugin object: position of on_loaded, ready, ssh_status, the last service query
    unloader          \* the thread running on_unload: position and locals

vars == <<now, sessions, session_counter, nobj, sess, fds, pids, shell, pump, api, resp,
          reaper, log, plugin, unloader>>

(* ------------------------------ helpers ------------------------------- *)
\* a dict is the sequence of its items <<key, value>> in insertion order
EmptyDict == <<>>
Keys(d) == {d[i][1] : i \in 1..Len(d)}
Size(d) == Len(d)
Lookup(d, k) == d[CHOOSE i \in 1..Len(d) : d[i][1] = k][2]
\* an assignment d[k] = v that stores nothing
DictPut_lost(d, k, v) == d
\* d[k] = v: a new key goes last, an existing key keeps its place
DictPut(d, k, v) ==
    IF k \in Keys(d) THEN [i \in 1..Len(d) |-> IF d[i][1] = k THEN <<k, v>> ELSE d[i]]
    ELSE Append(d, <<k, v>>)
\* del d[k]
DictDel(d, k) == SelectSeq(d, LAMBDA item : item[1] # k)
\* the first key in insertion order outside the set seen
NextKey(d, seen) == d[CHOOSE i \in 1..Len(d) :
                        /\ d[i][1] \notin seen
                        /\ \A j \in 1..(i - 1) : d[j][1] \in seen][1]

Lowest(S) == CHOOSE n \in S : \A m \in S : n <= m
FreeFd(w) == Lowest({f \in FdNums : w.fds[f] = NoObj})
FreePid(w) == Lowest({p \in PidNums : w.pids[p] = NoObj})

BlankSession ==
    [session_id |-> NoId, active |-> FALSE, last_activity |-> 0,
     output_buffer |-> <<>>, command_history |-> <<>>, master_fd |-> 0, pid |-> 0]

\* the part of the state the session methods read and write
World == [sess |-> sess, fds |-> fds, pids |-> pids, shell |-> shell, log |-> log]
SetWorld(w) ==
    /\ sess' = w.sess
    /\ fds' = w.fds
    /\ pids' = w.pids
    /\ shell' = w.shell
    /\ log' = w.log

BlankLog ==
    [closeCalls |-> [o \in Obj |-> 0],   \* os.close(master_fd) issued by close() of o
     killCalls |-> [o \in Obj |-> 0],    \* os.kill(pid, SIGTERM) issued by close() of o
     emitted |-> [o \in Obj |-> 0],      \* chunks read from the shell of o
     enqueued |-> [o \in Obj |-> <<>>],  \* chunks put into o.output_buffer, in order
     delivered |-> [o \in Obj |-> <<>>], \* chunks returned by read_output of o, in order
     evicted |-> [o \in Obj |-> FALSE],  \* a command has left o.command_history
     noexec |-> [o \in Obj |-> FALSE]]   \* the child forked for o failed to become a shell

(* ------------------------- WebTerminalSession ------------------------- *)
\* __init__ + _init_unix_terminal, the parent side of a successful openpty/fork
init_unix_terminal(w, o, id, t) ==
    LET fd == FreeFd(w)
        p == FreePid(w)
    IN [w EXCEPT
          !.sess[o] = [session_id |-> id, active |-> TRUE, last_activity |-> t,
                       output_buffer |-> <<>>, command_history |-> <<>>,
                       master_fd |-> fd, pid |-> p],
          !.fds[fd] = o,
          !.pids[p] = o,
          !.shell[o] = "running"]

\* a shell that has not exited: at its prompt (running) or inside a foreground
\* job (busy).  bash is interactive here (its stdin and stderr are the pty), so
\* it ignores SIGTERM; at its prompt it ends when it reads end of file.
Alive == {"running", "busy"}

\* os.close(fd) of a descriptor that is open: the number becomes free, and the
\* shell on the slave side of that pty reads end of file and exits if it is at
\* its prompt; a busy shell does not read its terminal and goes on
os_close(w, fd) ==
    LET owner == w.fds[fd]
    IN [w EXCEPT !.fds[fd] = NoObj,
                 !.shell[owner] = IF @ = "running" THEN "zombie" ELSE @]

\* os.kill(p, SIGTERM) + os.waitpid(p, 0) of a pid that names a process that
\* has exited: the process is reaped, the pid becomes free
os_kill_wait(w, p) ==
    LET target == w.pids[p]
    IN [w EXCEPT !.pids[p] = NoObj, !.shell[target] = "reaped"]

\* WebTerminalSession.close
close(w, o) ==
    LET s == w.sess[o]
        w1 == [w EXCEPT !.sess[o].active = FALSE,
                        !.log.closeCalls[o] = @ + 1]
    IN IF w.fds[s.master_fd] = NoObj
       THEN \* os.close raises OSError (EBADF): caught by the outer except, kill is skipped
            w1
       ELSE LET w2 == os_close(w1, s.master_fd)
                w3 == [w2 EXCEPT !.log.killCalls[o] = @ + 1]
            IN IF w3.pids[s.pid] = NoObj
               THEN \* os.kill raises ProcessLookupError: pass
                    w3
               ELSE os_kill_wait(w3, s.pid)

\* close() up to and including the os.kill of line 240, for an open descriptor
close_begin(w, o) ==
    LET w1 == [w EXCEPT !.sess[o].active = FALSE,
                        !.log.closeCalls[o] = @ + 1]
        w2 == os_close(w1, w.sess[o].master_fd)
    IN [w2 EXCEPT !.log.killCalls[o] = @ + 1]

\* close() has to wait in os.waitpid of line 241: the descriptor was open and
\* the process the pid names has not exited after the descriptor was closed
close_waits(w, o) ==
    LET s == w.sess[o]
    IN /\ w.fds[s.master_fd] # NoObj
       /\ LET w3 == close_begin(w, o)
          IN w3.pids[s.pid] # NoObj /\ w3.shell[w3.pids[s.pid]] \in Alive

\* os.waitpid(p, 0) can return: the process has exited, or no child has that
\* pid any more (ChildProcessError, an OSError: pass)
waitpid_done(w, p) ==
    IF w.pids[p] = NoObj THEN TRUE ELSE w.shell[w.pids[p]] \notin Alive
waitpid_return(w, p) == IF w.pids[p] = NoObj THEN w ELSE os_kill_wait(w, p)

\* is_alive has to wait inside the close() of line 254
is_alive_waits(w, o, t) ==
    /\ w.sess[o].active
    /\ t - w.sess[o].last_activity > IdleTimeout
    /\ close_waits(w, o)

\* an is_alive without the test of the active flag of line 249
is_alive_pidonly(w, o, t) == [w |-> w, ret |-> w.pids[w.sess[o].pid] # NoObj]

\* WebTerminalSession.is_alive at time t
is_alive(w, o, t) ==
    LET s == w.sess[o]
    IN IF ~s.active THEN [w |-> w, ret |-> FALSE]
       ELSE IF t - s.last_activity > IdleTimeout
            THEN [w |-> close(w, o), ret |-> FALSE]
            ELSE \* os.kill(pid, 0): true for any process with that pid, a zombie included
                 [w |-> w, ret |-> w.pids[s.pid] # NoObj]

(* text: a string is a sequence of one-character strings *)
IsSpace(c) == c \in {" ", "\n"}
RECURSIVE lstrip(_)
lstrip(s) == IF s # <<>> /\ IsSpace(Head(s)) THEN lstrip(Tail(s)) ELSE s
RECURSIVE rstrip(_)
rstrip(s) == IF s # <<>> /\ IsSpace(s[Len(s)]) THEN rstrip(SubSeq(s, 1, Len(s) - 1)) ELSE s
\* str.strip()
strip(s) == rstrip(lstrip(s))
\* str.endswith('\n')
endswith_nl(s) == s # <<>> /\ s[Len(s)] = "\n"
\* x in list
InList(x, l) == \E i \in 1..Len(l) : l[i] = x

\* the command history part without the pop(0) of line 187
record_command_nocap(hist, data) ==
    IF endswith_nl(data) /\ strip(data) # <<>> /\ ~InList(strip(data), hist)
    THEN Append(hist, strip(data))
    ELSE hist

\* the command history part without the membership test of line 183
record_command_nodedup(hist, data) ==
    IF endswith_nl(data) /\ strip(data) # <<>>
    THEN LET h == Append(hist, strip(data))
         IN IF Len(h) > HistoryMax THEN Tail(h) ELSE h
    ELSE hist

\* the command history part with the test of line 183 made against the last
\* entry only
record_command_lastonly(hist, data) ==
    IF endswith_nl(data) /\ strip(data) # <<>>
       /\ (hist = <<>> \/ hist[Len(hist)] # strip(data))
    THEN LET h == Append(hist, strip(data))
         IN IF Len(h) > HistoryMax THEN Tail(h) ELSE h
    ELSE hist

\* write_input, the command history part (lines 180-187)
record_command(hist, data) ==
    IF endswith_nl(data) /\ strip(data) # <<>>
    THEN LET cmd == strip(data)
         IN IF ~InList(cmd, hist)
            THEN LET h == Append(hist, cmd)
                 IN IF Len(h) > HistoryMax THEN Tail(h) ELSE h
            ELSE hist
    ELSE hist

\* os.write(master_fd, ...) succeeds: the descriptor is open and the shell on
\* the other side of the pty has not exited
CanWrite(w, fd) == w.fds[fd] # NoObj /\ w.shell[w.fds[fd]] \in Alive

\* WebTerminalSession.write_input at time t
write_input(w, o, data, t) ==
    LET s == w.sess[o]
    IN IF ~s.active THEN [w |-> w, ret |-> FALSE]
       ELSE LET h == record_command(s.command_history, data)
                w1 == [w EXCEPT !.sess[o].command_history = h,
                                !.log.evicted[o] = @ \/ (h # <<>> /\ Head(h) # Head(s.command_history \o h))]
            IN IF CanWrite(w1, s.master_fd)
               THEN [w |-> [w1 EXCEPT !.sess[o].last_activity = t], ret |-> TRUE]
               ELSE \* OSError: the session is marked inactive
                    [w |-> [w1 EXCEPT !.sess[o].active = FALSE], ret |-> FALSE]

\* a drain that takes the newest chunk first
RECURSIVE drain_lifo(_, _)
drain_lifo(buf, out) ==
    IF buf = <<>> THEN out
    ELSE drain_lifo(SubSeq(buf, 1, Len(buf) - 1), Append(out, buf[Len(buf)]))

\* queue.Queue.get_nowait until empty(): chunks leave at the head
RECURSIVE drain(_, _)
drain(buf, out) == IF buf = <<>> THEN out ELSE drain(Tail(buf), Append(out, Head(buf)))

\* a read_output that marks the session active again
read_output_revive(w, o) ==
    LET out == drain(w.sess[o].output_buffer, <<>>)
    IN [w |-> [w EXCEPT !.sess[o].output_buffer = <<>>,
                        !.sess[o].active = TRUE,
                        !.log.delivered[o] = @ \o out],
        ret |-> out]

\* a read_output that returns nothing on a session that is not active
read_output_activeonly(w, o) ==
    IF ~w.sess[o].active THEN [w |-> w, ret |-> <<>>]
    ELSE LET out == drain(w.sess[o].output_buffer, <<>>)
         IN [w |-> [w EXCEPT !.sess[o].output_buffer = <<>>,
                             !.log.delivered[o] = @ \o out],
             ret |-> out]

\* a read_output that counts as activity
read_output_touch(w, o) ==
    LET out == drain(w.sess[o].output_buffer, <<>>)
    IN [w |-> [w EXCEPT !.sess[o].output_buffer = <<>>,
                        !.sess[o].last_activity = @ + 1,
                        !.log.delivered[o] = @ \o out],
        ret |-> out]

\* WebTerminalSession.read_output
read_output(w, o) ==
    LET out == drain(w.sess[o].output_buffer, <<>>)
    IN [w |-> [w EXCEPT !.sess[o].output_buffer = <<>>,
                        !.log.delivered[o] = @ \o out],
        ret |-> out]

\* struct.pack('HHHH', rows, cols, 0, 0) accepts unsigned 16-bit integers only
PackOk(rows, cols) == rows \in 0..65535 /\ cols \in 0..65535

\* WebTerminalSession.resize: "raise" stands for struct.error leaving the method
resize(w, o, rows, cols) ==
    LET s == w.sess[o]
    IN IF ~s.active THEN "false"
       ELSE IF ~PackOk(rows, cols) THEN "raise"
       ELSE IF w.fds[s.master_fd] = NoObj THEN "false"
       ELSE "true"

\* a put that loses the chunk
queue_put_lost(buf, x) == buf

\* a put that never waits
CanPutAlways(buf) == TRUE

\* a put that still goes through when the queue holds maxsize items
CanPut_slack(buf) == Len(buf) <= QueueMaxsize

\* queue.Queue.put: waits while the queue holds maxsize items
CanPut(buf) == Len(buf) < QueueMaxsize
queue_put(buf, x) == Append(buf, x)

(* ------------------------- WebTerminalManager ------------------------- *)
\* get_session with a fallback to the first session for an absent id
get_session_first(d, id) ==
    IF id \in Keys(d) THEN Lookup(d, id) ELSE IF d # <<>> THEN d[1][2] ELSE NoObj

\* WebTerminalManager.get_session: dict.get, None (NoObj) when absent
get_session(d, id) == IF id \in Keys(d) THEN Lookup(d, id) ELSE NoObj

\* the id create_session builds: f"term_{int(time.time())}_{self.session_counter}"
make_id(t, counter) == <<t, counter>>

(* ------------------------------ responses ----------------------------- *)
\* what on_webhook returns: the fields of the JSON body, error = "exception"
\* for the 500 answer of its except clause; req and data are the session id and
\* the input text the request carried, appended tells that write_input added a
\* command to the history while serving it
Response(op, req, success, sid, output, active, error, history) ==
    [op |-> op, req |-> req, data |-> <<>>, appended |-> FALSE, success |-> success,
     session_id |-> sid, output |-> output, active |-> active, error |-> error,
     history |-> history]
NoResponse == Response("none", NoId, FALSE, NoId, <<>>, FALSE, "", <<>>)
NotFound == "Session not found"

\* a request thread between requests; out is the output a handler has drained
IdleThread == [pc |-> "idle", id |-> NoId, obj |-> NoObj, out |-> <<>>]

\* ids a client can send: every id a session was constructed with, and a made-up one
ClientIds == {sess[o].session_id : o \in 1..nobj} \cup {FabricatedId}

\* rows / cols values a client can send: a usual size, zero, a negative number
\* and one more than the largest unsigned 16-bit number
Dims == {24, 0, -1, 65536}

\* input texts of the full specification
InputsSmall == {<<"a", "\n">>}
\* input text of SpecEcho: a keystroke, no complete command
InputsKeys == {<<"a">>}
\* input texts of SpecHist
InputsIO ==
    {<<"a", "\n">>, <<"b", "\n">>, <<"c", "\n">>, <<"d", "\n">>, <<" ", "a", " ", "\n">>,
     <<"a">>, <<"\n">>, <<" ", "\n">>, <<>>}

(* -------------------------------- SSH --------------------------------- *)
\* what `systemctl is-active` prints for a service
Active == <<"a", "c", "t", "i", "v", "e">>
Inactive == <<"i", "n">> \o Active
Activating == <<"a", "c", "t", "i", "v", "a", "t", "i", "n", "g">>

\* the outcome of subprocess.run(['systemctl', 'is-active', 'ssh'], ...,
\* timeout=5): a completed process with its return code and its stdout, or an
\* exception (the query times out, systemctl cannot be started)
Completed(rc, out) == [kind |-> "result", returncode |-> rc, stdout |-> out]
Raised(e) == [kind |-> e, returncode |-> 0, stdout |-> <<>>]
NoQuery == Raised("none")
\* the outcome for a running service
QueryActive == Completed(0, Active \o <<"\n">>)
\* return codes of is-active: 0 for an active service, 3 otherwise
ReturnCodes == {0, 3}
Padding == {<<>>, <<" ">>, <<"\n">>, <<" ", "\n">>}
Words == {Active, Inactive, Activating, <<>>, Active \o <<" ">> \o Active}
Queries ==
    {Completed(rc, pre \o word \o post) :
        rc \in ReturnCodes, pre \in Padding, word \in Words, post \in Padding}
    \cup {Raised("TimeoutExpired"), Raised("FileNotFoundError")}

\* a status check that compares stdout as printed
check_ssh_status_nostrip(q) ==
    IF q.kind = "result" THEN q.returncode = 0 /\ q.stdout = Active ELSE FALSE

\* SSH._check_ssh_status on the outcome q of its query
check_ssh_status(q) ==
    IF q.kind = "result"
    THEN q.returncode = 0 /\ strip(q.stdout) = Active
    ELSE \* except Exception
         FALSE

\* SSH.__init__: ssh_status and ready are False
NewPlugin == [pc |-> "new", ready |-> FALSE, ssh_status |-> FALSE, query |-> NoQuery]

\* a test of the ready flag that lets every request through
is_ready_always(p) == TRUE

\* on_webhook line 411: requests go on only when self.ready
is_ready(p) == p.ready

\* on_unload has not been called; keys is the list of ids it iterates over,
\* todo the part of it still to come
NotUnloading == [pc |-> "idle", keys |-> <<>>, todo |-> <<>>, obj |-> NoObj]

(* ------------------------------- Init --------------------------------- *)
Init ==
    /\ now = 0
    /\ sessions = EmptyDict
    /\ session_counter = 0
    /\ nobj = 0
    /\ sess = [o \in Obj |-> BlankSession]
    /\ fds = [f \in FdNums |-> NoObj]
    /\ pids = [p \in PidNums |-> NoObj]
    /\ shell = [o \in Obj |-> "none"]
    /\ pump = [o \in Obj |-> [pc |-> "none", data |-> <<>>]]
    /\ api = [a \in Api |-> IdleThread]
    /\ resp = NoResponse
    /\ reaper = [pc |-> "sleep", size |-> 0, visited |-> {}, dead |-> <<>>, obj |-> NoObj]
    /\ log = BlankLog
    /\ plugin = NewPlugin
    /\ unloader = NotUnloading

(* ------------------- on_webhook: api/terminal/create ------------------ *)
\* create_session, line 278: the id is built from the clock and the counter
CreateId(a, limit) ==
    /\ api[a].pc = "idle"
    /\ is_ready(plugin)
    /\ session_counter + Cardinality({b \in Api : api[b].pc = "c_spawn"}) < limit
    /\ api' = [api EXCEPT ![a] = [pc |-> "c_spawn", id |-> make_id(now, session_counter),
                                  obj |-> NoObj, out |-> <<>>]]
    /\ UNCHANGED <<plugin, unloader, now, sessions, session_counter, nobj, sess, fds, pids, shell, pump,
                   reaper, log>>
    /\ resp' = NoResponse

\* create_session, lines 279-281: the counter is incremented and the session is
\* constructed; ok = FALSE is openpty/fork raising, which leaves active False
CreateSpawn(a, ok) ==
    /\ api[a].pc = "c_spawn"
    /\ session_counter' = session_counter + 1
    /\ IF ok
       THEN LET o == nobj + 1
            IN /\ nobj' = o
               /\ SetWorld(init_unix_terminal(World, o, api[a].id, now))
               /\ pump' = [pump EXCEPT ![o] = [pc |-> "loop", data |-> <<>>]]
               /\ api' = [api EXCEPT ![a].pc = "c_insert", ![a].obj = o]
       ELSE /\ api' = [api EXCEPT ![a].pc = "c_insert", ![a].obj = NoObj]
            /\ UNCHANGED <<nobj, sess, fds, pids, shell, log, pump>>
    /\ UNCHANGED <<plugin, unloader, now, sessions, reaper>>
    /\ resp' = NoResponse

\* create_session, lines 282-288, and the response of lines 443-448
CreateInsert(a) ==
    /\ api[a].pc = "c_insert"
    /\ LET o == api[a].obj
           id == api[a].id
       IN IF o # NoObj /\ sess[o].active
          THEN /\ sessions' = DictPut(sessions, id, o)
               /\ resp' = Response("create", NoId, TRUE, id, <<>>, FALSE, "", <<>>)
          ELSE /\ sessions' = sessions
               /\ resp' = Response("create", NoId, FALSE, NoId, <<>>, FALSE, "", <<>>)
    /\ api' = [api EXCEPT ![a] = IdleThread]
    /\ UNCHANGED <<plugin, unloader, now, session_counter, nobj, sess, fds, pids, shell, pump, reaper, log>>

(* ------------- on_webhook: input, output, resize, history ------------- *)
\* lines 450-460
WriteInput(a, id, data) ==
    /\ api[a].pc = "idle"
    /\ is_ready(plugin)
    /\ LET o == get_session(sessions, id)
       IN IF o # NoObj
          THEN LET r == write_input(World, o, data, now)
               IN /\ SetWorld(r.w)
                  /\ resp' = [Response("input", id, r.ret, NoId, <<>>, FALSE, "", <<>>)
                                EXCEPT !.data = data,
                                       !.appended = r.w.sess[o].command_history
                                                       # sess[o].command_history]
          ELSE /\ resp' = [Response("input", id, FALSE, NoId, <<>>, FALSE, NotFound, <<>>)
                                EXCEPT !.data = data]
               /\ UNCHANGED <<sess, fds, pids, shell, log>>
    /\ UNCHANGED <<plugin, unloader, now, sessions, session_counter, nobj, pump, api, reaper>>

\* lines 462-470: read_output, then is_alive for the active field; the thread
\* stays inside is_alive when its close() has to wait for the shell
ReadOutput(a, id) ==
    /\ api[a].pc = "idle"
    /\ is_ready(plugin)
    /\ LET o == get_session(sessions, id)
       IN IF o # NoObj
          THEN LET r == read_output(World, o)
                   al == is_alive(r.w, o, now)
               IN IF is_alive_waits(r.w, o, now)
                  THEN /\ SetWorld(close_begin(r.w, o))
                       /\ api' = [api EXCEPT ![a] = [pc |-> "o_wait", id |-> id, obj |-> o,
                                                     out |-> r.ret]]
                       /\ resp' = NoResponse
                  ELSE /\ SetWorld(al.w)
                       /\ api' = api
                       /\ resp' = Response("output", id, FALSE, NoId, r.ret, al.ret, "", <<>>)
          ELSE /\ resp' = Response("output", id, FALSE, NoId, <<>>, FALSE, NotFound, <<>>)
               /\ UNCHANGED <<sess, fds, pids, shell, log, api>>
    /\ UNCHANGED <<plugin, unloader, now, sessions, session_counter, nobj, pump, reaper>>

\* lines 472-483; struct.error is caught by the except clause of line 502
Resize(a, id, rows, cols) ==
    /\ api[a].pc = "idle"
    /\ is_ready(plugin)
    /\ LET o == get_session(sessions, id)
       IN IF o # NoObj
          THEN LET r == resize(World, o, rows, cols)
               IN resp' = (IF r = "raise"
                    THEN Response("resize", id, FALSE, NoId, <<>>, FALSE, "exception", <<>>)
                    ELSE Response("resize", id, r = "true", NoId, <<>>, FALSE, "", <<>>))
          ELSE resp' = Response("resize", id, FALSE, NoId, <<>>, FALSE, NotFound, <<>>)
    /\ UNCHANGED <<plugin, unloader, now, sessions, session_counter, nobj, sess, fds, pids, shell, pump, api,
                   reaper, log>>

\* lines 490-500
History(a, id) ==
    /\ api[a].pc = "idle"
    /\ is_ready(plugin)
    /\ LET o == get_session(sessions, id)
       IN IF o # NoObj
          THEN resp' = Response("history", id, TRUE, NoId, <<>>, FALSE, "", sess[o].command_history)
          ELSE resp' = Response("history", id, FALSE, NoId, <<>>, FALSE, "", <<>>)
    /\ UNCHANGED <<plugin, unloader, now, sessions, session_counter, nobj, sess, fds, pids, shell, pump, api,
                   reaper, log>>

(* -------------------- on_webhook: api/terminal/close ------------------ *)
\* close_session, lines 296-298: look the session up and close it; the response
\* of line 488 when the id is absent
CloseSessionClose(a, id) ==
    /\ api[a].pc = "idle"
    /\ is_ready(plugin)
    /\ LET o == get_session(sessions, id)
       IN IF o # NoObj
          THEN /\ IF close_waits(World, o)
                  THEN /\ SetWorld(close_begin(World, o))
                       /\ api' = [api EXCEPT ![a] = [pc |-> "x_wait", id |-> id, obj |-> o,
                                                     out |-> <<>>]]
                  ELSE /\ SetWorld(close(World, o))
                       /\ api' = [api EXCEPT ![a] = [pc |-> "x_del", id |-> id, obj |-> o,
                                                     out |-> <<>>]]
               /\ resp' = NoResponse
          ELSE /\ resp' = Response("close", id, TRUE, NoId, <<>>, FALSE, "", <<>>)
               /\ UNCHANGED <<sess, fds, pids, shell, log, api>>
    /\ UNCHANGED <<plugin, unloader, now, sessions, session_counter, nobj, pump, reaper>>

\* close_session, line 299: del self.sessions[session_id] raises KeyError when
\* another thread removed the id meanwhile; on_webhook answers 500 then
CloseSessionDel(a) ==
    /\ api[a].pc = "x_del"
    /\ LET id == api[a].id
       IN IF id \in Keys(sessions)
          THEN /\ sessions' = DictDel(sessions, id)
               /\ resp' = Response("close", id, TRUE, NoId, <<>>, FALSE, "", <<>>)
          ELSE /\ sessions' = sessions
               /\ resp' = Response("close", id, FALSE, NoId, <<>>, FALSE, "exception", <<>>)
    /\ api' = [api EXCEPT ![a] = IdleThread]
    /\ UNCHANGED <<plugin, unloader, now, session_counter, nobj, sess, fds, pids, shell, pump, reaper, log>>

\* a request thread waiting in the os.waitpid of close() (line 241) goes on when
\* the process has exited: close_session continues with its del, the output
\* handler answers with the output it drained and active:false
CloseWait(a) ==
    /\ api[a].pc \in {"x_wait", "o_wait"}
    /\ waitpid_done(World, sess[api[a].obj].pid)
    /\ SetWorld(waitpid_return(World, sess[api[a].obj].pid))
    /\ IF api[a].pc = "x_wait"
       THEN /\ api' = [api EXCEPT ![a].pc = "x_del"]
            /\ resp' = NoResponse
       ELSE /\ api' = [api EXCEPT ![a] = IdleThread]
            /\ resp' = Response("output", api[a].id, FALSE, NoId, api[a].out, FALSE, "", <<>>)
    /\ UNCHANGED <<plugin, unloader, now, sessions, session_counter, nobj, pump, reaper>>

(* ------------------------- _cleanup_sessions -------------------------- *)
Sleeping == [pc |-> "sleep", size |-> 0, visited |-> {}, dead |-> <<>>, obj |-> NoObj]

\* line 306-309: the sleep ends and the iteration over self.sessions.items() starts
ReaperWake ==
    /\ reaper.pc = "sleep"
    /\ reaper' = [pc |-> "scan", size |-> Size(sessions), visited |-> {},
                  dead |-> <<>>, obj |-> NoObj]
    /\ UNCHANGED <<plugin, unloader, now, sessions, session_counter, nobj, sess, fds, pids, shell, pump, api, log>>
    /\ resp' = NoResponse

\* lines 309-311: one step of the iteration, in insertion order.  The dict
\* iterator raises RuntimeError when the dict's size differs from the size at
\* its start; the except clause of line 316 then ends the sweep.
ReaperCheck ==
    /\ reaper.pc = "scan"
    /\ IF Size(sessions) # reaper.size
       THEN /\ reaper' = Sleeping
            /\ UNCHANGED <<sess, fds, pids, shell, log>>
       ELSE IF Keys(sessions) \subseteq reaper.visited
       THEN /\ reaper' = IF reaper.dead = <<>> THEN Sleeping
                         ELSE [reaper EXCEPT !.pc = "close"]
            /\ UNCHANGED <<sess, fds, pids, shell, log>>
       ELSE LET id == NextKey(sessions, reaper.visited)
                o == Lookup(sessions, id)
                r == is_alive(World, o, now)
            IN IF is_alive_waits(World, o, now)
               THEN /\ SetWorld(close_begin(World, o))
                    /\ reaper' = [reaper EXCEPT !.pc = "scan_wait", !.obj = o]
               ELSE /\ SetWorld(r.w)
                    /\ reaper' = [reaper EXCEPT
                          !.visited = @ \cup {id},
                          !.dead = IF r.ret THEN @ ELSE Append(@, id)]
    /\ UNCHANGED <<plugin, unloader, now, sessions, session_counter, nobj, pump, api>>
    /\ resp' = NoResponse

\* lines 313-314 with close_session lines 296-298, for the first id of dead_sessions
ReaperClose ==
    /\ reaper.pc = "close"
    /\ LET id == Head(reaper.dead)
           o == get_session(sessions, id)
       IN IF o # NoObj
          THEN IF close_waits(World, o)
               THEN /\ SetWorld(close_begin(World, o))
                    /\ reaper' = [reaper EXCEPT !.pc = "del_wait", !.obj = o]
               ELSE /\ SetWorld(close(World, o))
                    /\ reaper' = [reaper EXCEPT !.pc = "del"]
          ELSE /\ reaper' = IF Tail(reaper.dead) = <<>> THEN Sleeping
                            ELSE [reaper EXCEPT !.dead = Tail(@)]
               /\ UNCHANGED <<sess, fds, pids, shell, log>>
    /\ UNCHANGED <<plugin, unloader, now, sessions, session_counter, nobj, pump, api>>
    /\ resp' = NoResponse

\* close_session line 299 in the cleanup thread; KeyError ends the sweep (line 316)
ReaperDel ==
    /\ reaper.pc = "del"
    /\ LET id == Head(reaper.dead)
       IN IF id \in Keys(sessions)
          THEN /\ sessions' = DictDel(sessions, id)
               /\ reaper' = IF Tail(reaper.dead) = <<>> THEN Sleeping
                            ELSE [reaper EXCEPT !.pc = "close", !.dead = Tail(@)]
          ELSE /\ sessions' = sessions
               /\ reaper' = Sleeping
    /\ UNCHANGED <<plugin, unloader, now, session_counter, nobj, sess, fds, pids, shell, pump, api, log>>
    /\ resp' = NoResponse

\* the cleanup thread waiting in the os.waitpid of close() goes on when the
\* process has exited: is_alive returns False to the scan (line 310), or
\* close_session continues with its del
ReaperWait ==
    /\ reaper.pc \in {"scan_wait", "del_wait"}
    /\ waitpid_done(World, sess[reaper.obj].pid)
    /\ SetWorld(waitpid_return(World, sess[reaper.obj].pid))
    /\ reaper' = IF reaper.pc = "scan_wait"
                 THEN [reaper EXCEPT !.pc = "scan", !.obj = NoObj,
                                     !.visited = @ \cup {sess[reaper.obj].session_id},
                                     !.dead = Append(@, sess[reaper.obj].session_id)]
                 ELSE [reaper EXCEPT !.pc = "del", !.obj = NoObj]
    /\ UNCHANGED <<plugin, unloader, now, sessions, session_counter, nobj, pump, api>>
    /\ resp' = NoResponse

(* ------------------------- _read_unix_output -------------------------- *)
PumpDone == [pc |-> "done", data |-> <<>>]

\* line 157: while self.active; line 172 after the loop
PumpLoop(o) ==
    /\ pump[o].pc = "loop"
    /\ pump' = [pump EXCEPT ![o] = IF sess[o].active THEN [pc |-> "select", data |-> <<>>]
                                   ELSE PumpDone]
    /\ UNCHANGED <<plugin, unloader, now, sessions, session_counter, nobj, sess, fds, pids, shell, api,
                   reaper, log>>
    /\ resp' = NoResponse

\* lines 159-170: select and read on the number stored in master_fd.  A closed
\* number raises OSError; a pty whose shell is gone gives EIO or end of file;
\* otherwise there is a chunk (got) or the select times out.  The chunk is
\* <<object whose shell wrote it, its index>>.
PumpSelect(o, got, limit) ==
    /\ pump[o].pc = "select"
    /\ LET fd == sess[o].master_fd
           owner == fds[fd]
       IN IF owner = NoObj \/ shell[owner] \notin Alive
          THEN /\ got = FALSE
               /\ sess' = [sess EXCEPT ![o].active = FALSE]
               /\ pump' = [pump EXCEPT ![o] = PumpDone]
               /\ log' = log
          ELSE IF got
          THEN /\ log.emitted[owner] < limit
               /\ log' = [log EXCEPT !.emitted[owner] = @ + 1]
               /\ pump' = [pump EXCEPT ![o] =
                             [pc |-> "put", data |-> <<owner, log.emitted[owner] + 1>>]]
               /\ sess' = sess
          ELSE /\ pump' = [pump EXCEPT ![o] = [pc |-> "loop", data |-> <<>>]]
               /\ UNCHANGED <<sess, log>>
    /\ UNCHANGED <<plugin, unloader, now, sessions, session_counter, nobj, fds, pids, shell, api, reaper>>
    /\ resp' = NoResponse

\* lines 164-165: output_buffer.put(output), then last_activity
PumpPut(o) ==
    /\ pump[o].pc = "put"
    /\ CanPut(sess[o].output_buffer)
    /\ sess' = [sess EXCEPT ![o].output_buffer = queue_put(@, pump[o].data),
                            ![o].last_activity = now]
    /\ log' = [log EXCEPT !.enqueued[o] = Append(@, pump[o].data)]
    /\ pump' = [pump EXCEPT ![o] = [pc |-> "loop", data |-> <<>>]]
    /\ UNCHANGED <<plugin, unloader, now, sessions, session_counter, nobj, fds, pids, shell, api, reaper>>
    /\ resp' = NoResponse

(* ---------------------------- environment ----------------------------- *)
\* a second passes
Tick ==
    /\ now < MaxTime
    /\ now' = now + 1
    /\ UNCHANGED <<plugin, unloader, sessions, session_counter, nobj, sess, fds, pids, shell, pump, api,
                   reaper, log>>
    /\ resp' = NoResponse

\* the shell of o exits on its own (the user types exit)
ShellExit(o) ==
    /\ shell[o] = "running"
    /\ shell' = [shell EXCEPT ![o] = "zombie"]
    /\ UNCHANGED <<plugin, unloader, now, sessions, session_counter, nobj, sess, fds, pids, pump, api,
                   reaper, log>>
    /\ resp' = NoResponse

\* lines 103-118 in the forked child, while the request thread of the server
\* is still inside create_session: setsid, dup2 or execv raises (no /bin/bash,
\* say).  The exception is caught by the except clause of line 135 in the
\* child, a copy of the server: it sets active False in its own memory, answers
\* the request as failed and exits when its only thread ends.  The server sees
\* fork return a pid and goes on as after a successful spawn; the process the
\* pid names exits without ever having been a shell.
ExecFails(a) ==
    /\ api[a].pc = "c_insert"
    /\ api[a].obj # NoObj
    /\ shell[api[a].obj] = "running"
    /\ shell' = [shell EXCEPT ![api[a].obj] = "zombie"]
    /\ log' = [log EXCEPT !.noexec[api[a].obj] = TRUE]
    /\ UNCHANGED <<plugin, unloader, now, sessions, session_counter, nobj, sess, fds, pids, pump, api, reaper>>
    /\ resp' = NoResponse

\* the user starts a foreground job in the shell of o: until the job ends the
\* shell does not read its terminal
ShellBusy(o) ==
    /\ shell[o] = "running"
    /\ shell' = [shell EXCEPT ![o] = "busy"]
    /\ UNCHANGED <<plugin, unloader, now, sessions, session_counter, nobj, sess, fds, pids, pump, api,
                   reaper, log>>
    /\ resp' = NoResponse

\* the foreground job ends: the shell is back at its prompt, where it reads end
\* of file and exits if the master side of its pty has been closed
JobEnds(o) ==
    /\ shell[o] = "busy"
    /\ shell' = [shell EXCEPT ![o] = IF fds[sess[o].master_fd] = o THEN "running"
                                     ELSE "zombie"]
    /\ UNCHANGED <<plugin, unloader, now, sessions, session_counter, nobj, sess, fds, pids, pump, api,
                   reaper, log>>
    /\ resp' = NoResponse

(* ------------------- SSH: on_loaded, on_webhook, on_unload ------------ *)
\* on_loaded lines 345-354: the status check on the outcome q of its query,
\* and the auto-start of the service when the check says it is not running
\* (started: _start_ssh_service succeeded and set ssh_status)
OnLoadedCheck(q, started) ==
    /\ plugin.pc = "new"
    /\ plugin' = [plugin EXCEPT !.pc = "loading",
                                !.query = q,
                                !.ssh_status = IF check_ssh_status(q) THEN TRUE ELSE started]
    /\ UNCHANGED <<unloader, now, sessions, session_counter, nobj, sess, fds, pids, shell,
                   pump, api, reaper, log>>
    /\ resp' = NoResponse

\* on_loaded line 356: self.ready = True
OnLoadedReady ==
    /\ plugin.pc = "loading"
    /\ plugin' = [plugin EXCEPT !.pc = "loaded", !.ready = TRUE]
    /\ UNCHANGED <<unloader, now, sessions, session_counter, nobj, sess, fds, pids, shell,
                   pump, api, reaper, log>>
    /\ resp' = NoResponse

\* on_webhook lines 411-412: abort(503) for any path while ready is False
Unavailable(a, id) ==
    /\ api[a].pc = "idle"
    /\ ~is_ready(plugin)
    /\ resp' = Response("unavailable", id, FALSE, NoId, <<>>, FALSE, "503", <<>>)
    /\ UNCHANGED <<plugin, unloader, now, sessions, session_counter, nobj, sess, fds, pids,
                   shell, pump, api, reaper, log>>

\* on_webhook lines 426-431, api/ssh/status: the field active of the answer is
\* ssh_active, the result of _check_ssh_status on the outcome q of its query
Status(a, q) ==
    /\ api[a].pc = "idle"
    /\ is_ready(plugin)
    /\ plugin' = [plugin EXCEPT !.query = q]
    /\ resp' = Response("status", NoId, FALSE, NoId, <<>>, check_ssh_status(q), "", <<>>)
    /\ UNCHANGED <<unloader, now, sessions, session_counter, nobj, sess, fds, pids, shell,
                   pump, api, reaper, log>>

\* on_unload line 404: list(self.terminal_manager.sessions.keys())
UnloadStart ==
    /\ unloader.pc = "idle"
    /\ LET keys == [i \in 1..Len(sessions) |-> sessions[i][1]]
       IN unloader' = [pc |-> "close", keys |-> keys, todo |-> keys, obj |-> NoObj]
    /\ UNCHANGED <<plugin, now, sessions, session_counter, nobj, sess, fds, pids, shell,
                   pump, api, reaper, log>>
    /\ resp' = NoResponse

\* on_unload lines 404-407: the loop ends and on_unload returns, or
\* close_session lines 296-298 for the next id of the list
UnloadClose ==
    /\ unloader.pc = "close"
    /\ IF unloader.todo = <<>>
       THEN /\ unloader' = [unloader EXCEPT !.pc = "done"]
            /\ UNCHANGED <<sess, fds, pids, shell, log>>
       ELSE LET id == Head(unloader.todo)
                o == get_session(sessions, id)
            IN IF o # NoObj
               THEN IF close_waits(World, o)
                    THEN /\ SetWorld(close_begin(World, o))
                         /\ unloader' = [unloader EXCEPT !.pc = "wait", !.obj = o]
                    ELSE /\ SetWorld(close(World, o))
                         /\ unloader' = [unloader EXCEPT !.pc = "del"]
               ELSE /\ unloader' = [unloader EXCEPT !.todo = Tail(@)]
                    /\ UNCHANGED <<sess, fds, pids, shell, log>>
    /\ UNCHANGED <<plugin, now, sessions, session_counter, nobj, pump, api, reaper>>
    /\ resp' = NoResponse

\* close_session line 299 inside on_unload; on_unload has no except clause, so
\* KeyError leaves it
UnloadDel ==
    /\ unloader.pc = "del"
    /\ LET id == Head(unloader.todo)
       IN IF id \in Keys(sessions)
          THEN /\ sessions' = DictDel(sessions, id)
               /\ unloader' = [unloader EXCEPT !.pc = "close", !.todo = Tail(@)]
          ELSE /\ sessions' = sessions
               /\ unloader' = [unloader EXCEPT !.pc = "raised"]
    /\ UNCHANGED <<plugin, now, session_counter, nobj, sess, fds, pids, shell, pump, api,
                   reaper, log>>
    /\ resp' = NoResponse

\* on_unload waiting in the os.waitpid of close() goes on when the process has
\* exited
UnloadWait ==
    /\ unloader.pc = "wait"
    /\ waitpid_done(World, sess[unloader.obj].pid)
    /\ SetWorld(waitpid_return(World, sess[unloader.obj].pid))
    /\ unloader' = [unloader EXCEPT !.pc = "del", !.obj = NoObj]
    /\ UNCHANGED <<plugin, now, sessions, session_counter, nobj, pump, api, reaper>>
    /\ resp' = NoResponse

(* --------------------------- specifications --------------------------- *)
\* on_loaded with the service found running
OnLoaded == OnLoadedCheck(QueryActive, TRUE) \/ OnLoadedReady

Unload == UnloadStart \/ UnloadClose \/ UnloadDel

Create(a, limit, oks) ==
    \/ CreateId(a, limit)
    \/ \E ok \in oks : CreateSpawn(a, ok)
    \/ CreateInsert(a)

CloseSession(a) ==
    \/ \E id \in ClientIds : CloseSessionClose(a, id)
    \/ CloseSessionDel(a)

Reaper == ReaperWake \/ ReaperCheck \/ ReaperClose \/ ReaperDel

Pump(o, limit) ==
    PumpLoop(o) \/ (\E got \in BOOLEAN : PumpSelect(o, got, limit)) \/ PumpPut(o)

Input(a, inputs) == \E id \in ClientIds, data \in inputs : WriteInput(a, id, data)
Output(a) == \E id \in ClientIds : ReadOutput(a, id)
ResizeAny(a, dims) ==
    \E id \in ClientIds, rows \in dims, cols \in dims : Resize(a, id, rows, cols)
HistoryAny(a) == \E id \in ClientIds : History(a, id)

\* Spec: the whole life of one session, with the clock: a request thread, the
\* cleanup thread and the pump
Next ==
    \/ OnLoaded
    \/ Create(1, MaxCreate, BOOLEAN)
    \/ CloseSession(1)
    \/ Input(1, InputsSmall)
    \/ Output(1)
    \/ ResizeAny(1, Dims)
    \/ HistoryAny(1)
    \/ Reaper
    \/ \E o \in Obj : Pump(o, LifeChunks)
    \/ \E o \in Obj : ShellExit(o)
    \/ Tick

Spec == Init /\ [][Next]_vars

\* SpecTwo: two sessions side by side, no clock
NextTwo ==
    \/ OnLoaded
    \/ Create(1, TwoCreate, {TRUE})
    \/ CloseSession(1)
    \/ Input(1, InputsSmall)
    \/ Output(1)
    \/ ResizeAny(1, {24})
    \/ HistoryAny(1)
    \/ Reaper
    \/ \E o \in Obj : PumpLoop(o)
    \/ \E o \in Obj : PumpSelect(o, FALSE, 0)
    \/ \E o \in Obj : ShellExit(o)

SpecTwo == Init /\ [][NextTwo]_vars

\* SpecOps: the request handlers on two sessions, no clock and no pump: a
\* session dies when a write finds its shell gone
NextOps ==
    \/ OnLoaded
    \/ Create(1, OpsCreate, {TRUE})
    \/ CloseSession(1)
    \/ Input(1, InputsSmall)
    \/ Output(1)
    \/ ResizeAny(1, {24})
    \/ HistoryAny(1)
    \/ Reaper
    \/ \E o \in Obj : ShellExit(o)

SpecOps == Init /\ [][NextOps]_vars

\* SpecCap: the registry under create_session, close_session and the cleanup
\* thread, with room for one session more than max_sessions.  To keep the
\* registry of CapCreate sessions explorable the schedule is restricted: the
\* cleanup thread sweeps while the request thread is between requests, and
\* only the shell of the first session exits on its own.
NextCap ==
    \/ OnLoaded
    \/ /\ reaper.pc = "sleep"
       /\ \/ Create(1, CapCreate, {TRUE})
          \/ CloseSession(1)
          \/ PumpLoop(1)
          \/ PumpSelect(1, FALSE, 0)
          \/ ShellExit(1)
    \/ /\ api[1].pc = "idle"
       /\ Reaper

SpecCap == Init /\ [][NextCap]_vars

\* SpecSpawn: sessions whose construction may fail: openpty or fork raises in
\* the server, or execv raises in the forked child
NextSpawn ==
    \/ OnLoaded
    \/ Create(1, SpawnCreate, BOOLEAN)
    \/ ExecFails(1)
    \/ Output(1)
    \/ HistoryAny(1)
    \/ \E o \in Obj : PumpLoop(o)
    \/ \E o \in Obj : PumpSelect(o, FALSE, 0)

SpecSpawn == Init /\ [][NextSpawn]_vars

\* SpecPump: the output threads of two sessions next to create_session,
\* close_session and the output endpoint, no clock
NextPump ==
    \/ OnLoaded
    \/ Create(1, PumpCreate, {TRUE})
    \/ CloseSession(1)
    \/ Output(1)
    \/ \E o \in Obj : Pump(o, PumpChunks)
    \/ \E o \in Obj : ShellExit(o)

SpecPump == Init /\ [][NextPump]_vars

\* SpecEof: the output threads of two sessions whose shells emit nothing and
\* may exit, next to create_session, close_session and the output endpoint: a
\* select/read ends with a timeout, end of file or an I/O error
NextEof ==
    \/ OnLoaded
    \/ Create(1, EofCreate, {TRUE})
    \/ CloseSession(1)
    \/ Output(1)
    \/ \E o \in Obj : PumpLoop(o)
    \/ \E o \in Obj : PumpSelect(o, FALSE, 0)
    \/ \E o \in Obj : ShellExit(o)

SpecEof == Init /\ [][NextEof]_vars

\* SpecTurn: every operation on a session, the cleanup thread, the output
\* thread and the clock.  To keep more than one session explorable the
\* schedule is restricted: the cleanup thread sweeps while the request thread
\* is between requests, and a request is served while the cleanup thread
\* sleeps; output threads, shells and the clock move at any time.
NextTurn ==
    \/ OnLoaded
    \/ /\ reaper.pc = "sleep"
       /\ \/ Create(1, TurnCreate, {TRUE})
          \/ CloseSession(1)
          \/ Input(1, InputsKeys)
          \/ Output(1)
          \/ ResizeAny(1, {24})
    \/ /\ api[1].pc = "idle"
       /\ Reaper
    \/ \E o \in Obj : PumpLoop(o)
    \/ \E o \in Obj : PumpSelect(o, FALSE, 0)
    \/ \E o \in Obj : ShellExit(o)
    \/ Tick

SpecTurn == Init /\ [][NextTurn]_vars

\* SpecAct: what counts as activity: write_input, the output endpoint and the
\* output thread with the clock.  Only the shell of the first session exits on
\* its own, which keeps more than one session explorable.
NextAct ==
    \/ OnLoaded
    \/ Create(1, ActCreate, {TRUE})
    \/ Input(1, InputsKeys)
    \/ Output(1)
    \/ \E o \in Obj : Pump(o, ActChunks)
    \/ ShellExit(1)
    \/ Tick

SpecAct == Init /\ [][NextAct]_vars

\* SpecSweep: the cleanup thread over two sessions with the clock, next to
\* create_session and the output endpoint, whose is_alive closes an idle
\* session and leaves it in the map
NextSweep ==
    \/ OnLoaded
    \/ Create(1, TwoCreate, {TRUE})
    \/ Output(1)
    \/ Reaper
    \/ Tick

SpecSweep == Init /\ [][NextSweep]_vars

\* SpecIO: the output path of one session: the pump and read_output
NextIO ==
    \/ OnLoaded
    \/ Create(1, IOCreate, {TRUE})
    \/ Output(1)
    \/ \E o \in Obj : Pump(o, MaxChunks)
    \/ \E o \in Obj : ShellExit(o)

SpecIO == Init /\ [][NextIO]_vars

\* SpecHist: the command history of a session whose shell keeps running:
\* write_input and the history endpoint
NextHist ==
    \/ OnLoaded
    \/ Create(1, HistCreate, {TRUE})
    \/ Input(1, InputsIO)
    \/ HistoryAny(1)

SpecHist == Init /\ [][NextHist]_vars

\* SpecEcho: a client that types into a session whose shell keeps running
\* and polls the session's output.  The
\* request thread finishes a create it has begun, the output thread of every
\* session keeps being scheduled and the client keeps polling every session it
\* created.
NextEcho ==
    \/ OnLoaded
    \/ Create(1, EchoCreate, {TRUE})
    \/ Input(1, InputsKeys)
    \/ Output(1)
    \/ \E o \in Obj : Pump(o, EchoChunks)

SpecEcho ==
    /\ Init /\ [][NextEcho]_vars
    /\ WF_vars(OnLoaded)
    /\ WF_vars(CreateSpawn(1, TRUE) \/ CreateInsert(1))
    /\ \A o \in 1..EchoCreate : WF_vars(Pump(o, EchoChunks))
    /\ \A o \in 1..EchoCreate : WF_vars(nobj >= o /\ ReadOutput(1, sess[o].session_id))

\* SpecBlock: one session whose shell may be inside a foreground job when the
\* session is closed, with the clock.  The cleanup thread keeps being scheduled.
NextBlock ==
    \/ OnLoaded
    \/ Create(1, MaxCreate, {TRUE})
    \/ CloseSession(1)
    \/ CloseWait(1)
    \/ Output(1)
    \/ Reaper
    \/ ReaperWait
    \/ \E o \in Obj : PumpLoop(o)
    \/ \E o \in Obj : PumpSelect(o, FALSE, 0)
    \/ \E o \in Obj : ShellBusy(o)
    \/ \E o \in Obj : JobEnds(o)
    \/ \E o \in Obj : ShellExit(o)
    \/ Tick

SpecBlock ==
    Init /\ [][NextBlock]_vars /\ WF_vars(OnLoaded) /\ WF_vars(Reaper \/ ReaperWait)

\* SpecIso: two sessions with the clock, request handlers only: a session is
\* closed by the idle check of is_alive and by close_session
NextIso ==
    \/ OnLoaded
    \/ Create(1, TwoCreate, {TRUE})
    \/ CloseSession(1)
    \/ Input(1, InputsSmall)
    \/ Output(1)
    \/ Tick

SpecIso == Init /\ [][NextIso]_vars

\* SpecRace: the request threads create and close sessions concurrently
NextRace ==
    \/ OnLoaded
    \/ \E a \in Api :
          \/ Create(a, TwoCreate, {TRUE})
          \/ CloseSession(a)
          \/ HistoryAny(a)

SpecRace == Init /\ [][NextRace]_vars

\* SpecStatus: the status check on every outcome of the service query, as
\* on_loaded and the endpoint api/ssh/status call it
NextStatus ==
    \/ \E q \in Queries, started \in BOOLEAN : OnLoadedCheck(q, started)
    \/ OnLoadedReady
    \/ \E q \in Queries : Status(1, q)
    \/ Unavailable(1, FabricatedId)

SpecStatus == Init /\ [][NextStatus]_vars

\* SpecLoad: requests that arrive before, while and after on_loaded runs, the
\* cleanup thread, and on_unload
NextLoad ==
    \/ \E q \in {QueryActive, Raised("TimeoutExpired")}, started \in BOOLEAN :
          OnLoadedCheck(q, started)
    \/ OnLoadedReady
    \/ \E id \in ClientIds : Unavailable(1, id)
    \/ Status(1, QueryActive)
    \/ Create(1, LoadCreate, {TRUE})
    \/ CloseSession(1)
    \/ Input(1, InputsKeys)
    \/ Output(1)
    \/ ResizeAny(1, {24})
    \/ HistoryAny(1)
    \/ Reaper
    \/ Unload

SpecLoad == Init /\ [][NextLoad]_vars

\* SpecUnload: on_unload next to the cleanup thread and the output endpoint,
\* with the clock and shells that may be inside a foreground job.  No create
\* runs while on_unload runs.
NextUnload ==
    \/ OnLoaded
    \/ (unloader.pc = "idle" /\ Create(1, UnloadCreate, {TRUE}))
    \/ (api[1].pc = "idle" /\ UnloadStart)
    \/ UnloadClose
    \/ UnloadDel
    \/ UnloadWait
    \/ Output(1)
    \/ CloseWait(1)
    \/ Reaper
    \/ ReaperWait
    \/ \E o \in Obj : ShellBusy(o)
    \/ \E o \in Obj : JobEnds(o)
    \/ Tick

SpecUnload == Init /\ [][NextUnload]_vars

(* ------------------------------- claims ------------------------------- *)
\* the session object a client id names: the object constructed with that id
Named(id) == {o \in 1..nobj : sess[o].session_id = id}
\* close() has run on the object
Closed(o) == log.closeCalls[o] > 0
\* the operations on an existing session
SessionOps == {"input", "output", "resize", "history"}

\* C1: after any sequence of createSession, closeSession and Reaper ticks the
\* session map never holds more than max_sessions entries.
C1_RegistryWithinMax == Size(sessions) <= max_sessions

C3_CloseIdempotent ==
    [][resp'.op = "close" =>
          /\ resp'.success
          /\ resp'.error = ""
          /\ resp'.req \notin Keys(sessions) =>
                (sessions' = sessions /\ sess' = sess /\ fds' = fds /\ pids' = pids
                 /\ shell' = shell /\ log' = log)]_vars

\* C4: writeInput, resize and history on an id that is not in the session map
\* answer success:false, readOutput answers empty output and active:false, and
\* none of them creates a session or changes the map or any session.
C4_UnknownIdFails ==
    [][(resp'.op \in SessionOps /\ resp'.req \notin Keys(sessions)) =>
          /\ ~resp'.success
          /\ resp'.output = <<>>
          /\ ~resp'.active
          /\ resp'.history = <<>>
          /\ sessions' = sessions /\ nobj' = nobj /\ sess' = sess /\ fds' = fds
          /\ pids' = pids /\ shell' = shell]_vars

\* C4 witness: an operation on the id of a removed session has been answered
\* while another session is in the map
C4_Witness ==
    /\ resp.op \in SessionOps
    /\ resp.req # FabricatedId
    /\ resp.req \notin Keys(sessions)
    /\ Size(sessions) >= 1

\* C5: an operation on a session on which close() has run, by whichever path,
\* fails as for an unknown id (success:false; active:false and no output for
\* readOutput).  The error text is left out of the statement: it fails already
\* on the success flag.
C5_ClosedSessionFails ==
    [][(resp'.op \in SessionOps /\ \E o \in Named(resp'.req) : Closed(o)) =>
          /\ ~resp'.success
          /\ ~resp'.active
          /\ resp'.output = <<>>]_vars

\* C6: every session in the session map is not closed: its active flag is true
\* and its descriptor is still open and its own.
C6_MapHoldsOnlyOpenSessions ==
    \A i \in 1..Len(sessions) :
        LET o == sessions[i][2]
        IN sess[o].active /\ fds[sess[o].master_fd] = o

\* C7: the descriptor close and the terminate signal of a session are each
\* issued at most once, and exactly once when the session has left the map.
C7_ReleasedExactlyOnce ==
    \A o \in 1..nobj :
        /\ log.closeCalls[o] <= 1
        /\ log.killCalls[o] <= 1
        /\ (Closed(o) /\ sess[o].session_id \notin Keys(sessions)) =>
              (log.closeCalls[o] = 1 /\ log.killCalls[o] = 1)

\* C8 as stated: the pump never waits on a full buffer: whenever it holds a
\* chunk, the put can be taken.
C8_PumpNeverBlocks ==
    \A o \in 1..nobj : pump[o].pc = "put" => ENABLED PumpPut(o)

\* C8 amended: with the buffer full the pump waits in put holding its chunk, and
\* no queued chunk is dropped: until a reader drains the buffer the pump stays
\* where it is, and the put that ends the wait appends the chunk to a buffer
\* that has room, leaving the queued chunks in place.
C8_PumpWaitsWhenFull ==
    [][\A o \in 1..nobj :
          LET buf == sess[o].output_buffer
          IN pump[o].pc = "put" =>
                /\ Len(buf) >= QueueMaxsize =>
                      (pump'[o] = pump[o] /\ sess'[o].output_buffer \in {buf, <<>>})
                /\ pump'[o] # pump[o] =>
                      (Len(buf) < QueueMaxsize
                       /\ sess'[o].output_buffer = Append(buf, pump[o].data))]_vars

\* C8 witness: the pump holds a chunk while the buffer is full
C8_Witness ==
    \E o \in 1..nobj : pump[o].pc = "put" /\ Len(sess[o].output_buffer) = QueueMaxsize

\* C9: the chunks read_output has returned, in the order returned, are the
\* first chunks the pump enqueued, in enqueue order: none out of order, none
\* twice.
C9_OutputIsFifo ==
    \A o \in 1..nobj :
        /\ Len(log.delivered[o]) <= Len(log.enqueued[o])
        /\ \A i \in 1..Len(log.delivered[o]) : log.delivered[o][i] = log.enqueued[o][i]

\* C9 witness: more chunks than the buffer holds have been delivered, the last
\* read returning more than one
C9_Witness ==
    /\ Len(log.delivered[1]) > QueueMaxsize
    /\ resp.op = "output"
    /\ Len(resp.output) > 1

\* C10: the command history never holds more than HistoryMax entries, and a
\* step that changes it appends one command, evicting the oldest entry when the
\* history was full and keeping the other entries in their order.
C10_HistoryCapped ==
    /\ [](\A o \in 1..nobj : Len(sess[o].command_history) <= HistoryMax)
    /\ [][\A o \in 1..nobj :
            LET h == sess[o].command_history
                g == sess'[o].command_history
            IN g # h =>
                  /\ Len(g) >= 1
                  /\ SubSeq(g, 1, Len(g) - 1) =
                        (IF Len(h) = HistoryMax THEN Tail(h) ELSE h)]_vars

\* C10 witness: a command was recorded into a full history and the oldest left
C10_Witness ==
    /\ log.evicted[1]
    /\ Len(sess[1].command_history) = HistoryMax
    /\ resp.op = "input"
    /\ sess[1].command_history[HistoryMax] = strip(resp.data)

\* the object in the session map under the id of the request just answered
Served == get_session(sessions, resp'.req)
\* the text is a complete command: it ends in a newline and is not blank
IsCommand(data) == endswith_nl(data) /\ strip(data) # <<>>

\* C11: the command history never holds two adjacent equal entries, and a
\* command submitted again right after it was recorded leaves the history as
\* it is.
C11_NoAdjacentDuplicates ==
    /\ [](\A o \in 1..nobj :
            LET h == sess[o].command_history
            IN \A i \in 1..(Len(h) - 1) : h[i] # h[i + 1])
    /\ [][(resp'.op = "input" /\ Served # NoObj /\ IsCommand(resp'.data)) =>
            LET h == sess[Served].command_history
            IN (h # <<>> /\ h[Len(h)] = strip(resp'.data)) =>
                  sess'[Served].command_history = h]_vars

\* C11 witness: a write_input carrying the command recorded last was served
\* and recorded nothing
C11_Witness ==
    /\ resp.op = "input" /\ resp.success /\ ~resp.appended
    /\ IsCommand(resp.data)
    /\ \E o \in 1..nobj :
          LET h == sess[o].command_history
          IN sess[o].session_id = resp.req /\ h # <<>> /\ h[Len(h)] = strip(resp.data)

\* C12 as stated: write_input on an active session appends the trimmed command
\* exactly when the text ends in a newline, is not blank, and differs from the
\* command recorded last.
C12_AppendsUnlessSameAsLast ==
    [][(resp'.op = "input" /\ Served # NoObj /\ sess[Served].active) =>
          LET h == sess[Served].command_history
              cmd == strip(resp'.data)
          IN resp'.appended <=>
                (IsCommand(resp'.data) /\ (h = <<>> \/ h[Len(h)] # cmd))]_vars

\* C12 amended: write_input on an active session appends the trimmed command
\* exactly when the text ends in a newline, is not blank, and equals no command
\* the history holds; the appended command is then the last entry.
C12_AppendsUnlessInHistory ==
    [][(resp'.op = "input" /\ Served # NoObj /\ sess[Served].active) =>
          LET h == sess[Served].command_history
              g == sess'[Served].command_history
              cmd == strip(resp'.data)
          IN /\ (g # h) <=> (IsCommand(resp'.data) /\ ~InList(cmd, h))
             /\ g # h => g[Len(g)] = cmd]_vars

\* C12 witness: with a then b recorded, a was submitted again and not appended
C12_Witness ==
    /\ resp.op = "input" /\ resp.success /\ ~resp.appended
    /\ strip(resp.data) = <<"a">> /\ IsCommand(resp.data)
    /\ sess[1].command_history = << <<"a">>, <<"b">> >>

\* C13: a write_input that returns false leaves the command history and
\* last_activity of the session as they were.
C13_FailedWriteRecordsNothing ==
    [][(resp'.op = "input" /\ ~resp'.success /\ Served # NoObj) =>
          /\ sess'[Served].command_history = sess[Served].command_history
          /\ sess'[Served].last_activity = sess[Served].last_activity]_vars

\* C14: a readOutput served after the shell of the session has exited reports
\* active:false.
C14_ExitSeenByNextRead ==
    [][(resp'.op = "output" /\ Served # NoObj /\ shell[Served] # "running") =>
          ~resp'.active]_vars

\* the step is a request handler or a cleanup step working on the session id
ActsOn(id) ==
    \/ resp'.op \in SessionOps \cup {"close"} /\ resp'.req = id
    \/ \E a \in Api : api[a].pc = "idle" /\ api'[a].pc = "x_del" /\ api'[a].id = id
    \/ reaper.pc = "scan" /\ id \notin reaper.visited /\ id \in reaper'.visited
    \/ reaper.pc = "close" /\ reaper'.pc = "del" /\ Head(reaper.dead) = id
\* the step leaves the session object o, its descriptor and its shell alone
Untouched(o) ==
    /\ sess'[o] = sess[o]
    /\ shell'[o] = shell[o]
    /\ fds[sess[o].master_fd] = o => fds'[sess[o].master_fd] = o
    /\ pids[sess[o].pid] = o => pids'[sess[o].pid] = o

\* C17: an operation on one session (write_input, read_output, resize,
\* is_alive, close, a repeated close included) changes nothing of any other
\* session: not its fields, not its descriptor, not its shell process.
C17_SessionsIsolated ==
    [][\A id \in ClientIds :
          ActsOn(id) =>
             \A o \in 1..nobj : sess[o].session_id # id => Untouched(o)]_vars

\* C18: when the closing phase of a cleanup sweep ends, every session the sweep
\* had found not alive has left the session map.
C18_SweepClosesAllDead ==
    [][(reaper.pc \in {"close", "del"} /\ reaper'.pc = "sleep") =>
          \A i \in 1..Len(reaper.dead) : reaper.dead[i] \notin Keys(sessions')]_vars

\* C20: no two sessions are constructed with the same id, and the insert of a
\* created session never replaces an entry of the session map.
C20_SessionIdsUnique ==
    /\ [](\A o1, o2 \in 1..nobj : o1 # o2 => sess[o1].session_id # sess[o2].session_id)
    /\ [][(resp'.op = "create" /\ resp'.success) =>
             resp'.session_id \notin Keys(sessions)]_vars

\* every chunk read from the shell of o so far has been returned by read_output
AllDelivered(o) ==
    /\ Len(log.delivered[o]) = log.emitted[o]
    /\ \A k \in 1..log.emitted[o] : log.delivered[o][k] = <<o, k>>

\* C16: every chunk the output thread has read from the shell of a session is
\* eventually returned by a read_output of that session, unless the session is
\* closed or leaves the session map: again and again, all chunks produced so
\* far have been delivered.
C16_ProducedIsDelivered ==
    \A o \in 1..EchoCreate :
        []<>(\/ AllDelivered(o)
             \/ Closed(o)
             \/ (nobj >= o /\ sess[o].session_id \notin Keys(sessions)))

\* C16 witness: on a session that is active and whose shell runs, a poll
\* returned the last chunk the shell produced and every chunk has been delivered
C16_Witness ==
    /\ sess[1].active /\ shell[1] = "running"
    /\ resp.op = "output" /\ resp.output # <<>>
    /\ resp.output[Len(resp.output)] = <<1, EchoChunks>>
    /\ Len(log.delivered[1]) = EchoChunks

\* a thread is inside the os.waitpid of a close()
ApiWaiting(a) == api[a].pc \in {"x_wait", "o_wait"}
ReaperWaiting == reaper.pc \in {"scan_wait", "del_wait"}

\* C19: close() never has to wait for a process that goes on running: whenever
\* a request thread or the cleanup thread is inside the wait of close(), the
\* process it waits for has exited, so that the wait returns.
C19_CloseCompletes ==
    /\ \A a \in Api : ApiWaiting(a) => waitpid_done(World, sess[api[a].obj].pid)
    /\ ReaperWaiting => waitpid_done(World, sess[reaper.obj].pid)

\* the session of object o is in the session map and has been idle for longer
\* than the idle timeout
Idle(o) ==
    /\ nobj >= o
    /\ sess[o].session_id \in Keys(sessions)
    /\ now - sess[o].last_activity > IdleTimeout

\* C15: a session idle for longer than the idle timeout is eventually closed
\* and removed from the session map, with the cleanup thread scheduled and no
\* client call required.
C15_IdleSessionReaped ==
    \A o \in 1..MaxCreate :
        Idle(o) ~> (Closed(o) /\ sess[o].session_id \notin Keys(sessions))

\* C21: resize never raises: for every rows and cols a client sends and every
\* state of the session the resize request is answered with success true or
\* false and no exception, with false on a session that is not active, and no
\* field of any session changes.
C21_ResizeNeverRaises ==
    [][(resp'.op = "resize" /\ Served # NoObj) =>
          /\ resp'.error = ""
          /\ ~sess[Served].active => ~resp'.success
          /\ sess' = sess]_vars

\* the construction of the session a request thread is creating has failed:
\* openpty or fork raised, or the forked child did not become a shell
SpawnFailed(a) == api[a].obj = NoObj \/ log.noexec[api[a].obj]

\* C22: when spawning the shell fails, create_session answers success:false
\* with no session id and leaves the session map unchanged, and the map never
\* holds a session whose shell was not spawned.
C22_SpawnFailureFails ==
    /\ [][\A a \in Api :
            (api[a].pc = "c_insert" /\ api'[a].pc = "idle" /\ SpawnFailed(a)) =>
               (~resp'.success /\ resp'.session_id = NoId /\ sessions' = sessions)]_vars
    /\ [](\A o \in 1..nobj : log.noexec[o] => sess[o].session_id \notin Keys(sessions))

\* the cleanup thread is inside its iteration over the session map (line 309)
Iterating == reaper.pc \in {"scan", "scan_wait"}
\* the threads inside close_session that have found the id in the map (line
\* 297) and have not yet reached their del (line 299)
Removers(id) ==
    {a \in Api : api[a].pc \in {"x_wait", "x_del"} /\ api[a].id = id}
    \cup (IF reaper.pc \in {"del_wait", "del"} /\ Head(reaper.dead) = id THEN {0} ELSE {})

\* C23: the session map is accessed under mutual exclusion: while the cleanup
\* thread iterates over the map no insert and no remove takes effect, and at
\* most one thread at a time is between the presence check and the del of
\* close_session for the same id.
C23_MapMutualExclusion ==
    /\ [][Iterating => sessions' = sessions]_vars
    /\ [](\A id \in ClientIds : Cardinality(Removers(id)) <= 1)

\* C24: close() is safe next to a running output thread: once close() has
\* closed the descriptor of a session, the session's output thread reads
\* nothing more through that descriptor number.
C24_NoReadAfterClose ==
    [][\A o \in 1..nobj :
          (Closed(o) /\ pump[o].pc = "select") => pump'[o].pc # "put"]_vars

\* the step leaves the session object o alone but for draining its buffer
OnlyDrained(o) ==
    /\ sess'[o] = [sess[o] EXCEPT !.output_buffer = <<>>]
    /\ fds' = fds /\ pids' = pids /\ shell' = shell
    /\ log'.closeCalls = log.closeCalls /\ log'.killCalls = log.killCalls

\* C25: is_alive, as the output endpoint calls it: on an active session idle
\* for longer than the idle timeout it closes the session and returns false;
\* on an active session within the timeout it returns whether the session's
\* shell process is alive and changes nothing; on a session that is not active
\* it returns false and changes nothing.
C25_IsAliveContract ==
    [][(resp'.op = "output" /\ Served # NoObj) =>
          LET o == Served
          IN IF ~sess[o].active
             THEN ~resp'.active /\ OnlyDrained(o)
             ELSE IF now - sess[o].last_activity > IdleTimeout
             THEN /\ ~resp'.active
                  /\ ~sess'[o].active
                  /\ log'.closeCalls[o] = log.closeCalls[o] + 1
             ELSE /\ resp'.active = (shell[o] \in Alive)
                  /\ OnlyDrained(o)]_vars

\* the output thread of o ends its loop in this step because its select/read
\* met end of file or an I/O error
PumpReadFails(o) == pump[o].pc = "select" /\ pump'[o].pc = "done"

\* C26: when the read of a session's output thread returns end of file or
\* raises an I/O error, the session's active flag becomes false and the thread
\* ends; no request is answered with that error and no other session or output
\* thread changes; every read_output served for the session afterwards reports
\* active:false.
C26_ReadFailureEndsPump ==
    /\ [][\A o \in 1..nobj :
            PumpReadFails(o) =>
               /\ ~sess'[o].active
               /\ resp' = NoResponse /\ api' = api
               /\ \A p \in 1..nobj : p # o => (sess'[p] = sess[p] /\ pump'[p] = pump[p])]_vars
    /\ [](\A o \in 1..nobj : pump[o].pc = "done" => ~sess[o].active)
    /\ [][(resp'.op = "output" /\ Served # NoObj /\ pump[Served].pc = "done") =>
             ~resp'.active]_vars

\* C26 witness: the shell of a session exited, its output thread met the end
\* of file (no close() has run on the session), and a poll of the session,
\* still in the map, answered active:false while another session goes on
C26_Witness ==
    /\ resp.op = "output" /\ ~resp.active /\ resp.req \in Keys(sessions)
    /\ \E o \in 1..nobj :
          /\ sess[o].session_id = resp.req
          /\ pump[o].pc = "done" /\ ~Closed(o) /\ shell[o] = "zombie"
          /\ \E p \in 1..nobj : p # o /\ sess[p].active /\ pump[p].pc # "done"

\* C27: the state of a session only moves forward: once the active flag of a
\* session object is false it is never true again, whatever request, output
\* thread step or cleanup step follows.
C27_ActiveNeverReturns ==
    [][\A o \in 1..nobj : ~sess[o].active => ~sess'[o].active]_vars

\* C27 witness: a session that is no longer active and is still in the session
\* map has just served a request
C27_Witness ==
    /\ resp.op \in SessionOps /\ resp.req \in Keys(sessions)
    /\ \E o \in 1..nobj : sess[o].session_id = resp.req /\ ~sess[o].active

\* C28: read_output never fails: it returns the chunks queued at the time of
\* the call, concatenated in queue order, and leaves the buffer empty; with
\* nothing queued it returns the empty string; on a session that is not active
\* it does the same, so output queued before the session died is still
\* returned.
C28_ReadOutputDrains ==
    [][(resp'.op = "output" /\ Served # NoObj) =>
          /\ resp'.error = ""
          /\ resp'.output = sess[Served].output_buffer
          /\ sess'[Served].output_buffer = <<>>]_vars

\* C28 witness: a poll of a session whose output thread has ended returned
\* two chunks queued before the session died
C28_Witness ==
    /\ resp.op = "output" /\ ~resp.active
    /\ Len(resp.output) >= 2
    /\ \E o \in 1..nobj :
          sess[o].session_id = resp.req /\ ~sess[o].active /\ pump[o].pc = "done"

\* the step is a write_input on o that returned true
WroteInput(o) == resp'.op = "input" /\ resp'.success /\ Served = o
\* the step is the output thread of o enqueuing a chunk it read from the shell
\* (lines 164-165)
ReadChunk(o) == pump[o].pc = "put" /\ pump'[o].pc = "loop"

\* C29: last_activity of a session is set to the current time by every
\* write_input that succeeds and by every chunk the output thread has read
\* from the shell and enqueued, and by nothing else (read_output, resize,
\* is_alive, close and a failed write leave it alone); it never decreases.
C29_LastActivityUpdates ==
    [][\A o \in 1..nobj :
          /\ (WroteInput(o) \/ ReadChunk(o)) => sess'[o].last_activity = now
          /\ ~(WroteInput(o) \/ ReadChunk(o)) => sess'[o].last_activity = sess[o].last_activity
          /\ sess'[o].last_activity >= sess[o].last_activity]_vars

\* C29 witness: a poll returned output of a session whose last activity lies
\* in the past and after its creation: the poll did not count as activity
C29_Witness ==
    /\ resp.op = "output" /\ resp.output # <<>> /\ resp.active
    /\ \E o \in 1..nobj :
          /\ sess[o].session_id = resp.req
          /\ 0 < sess[o].last_activity /\ sess[o].last_activity < now

\* the ids whose is_alive returned true, and those whose is_alive returned
\* false, in the sweep the cleanup thread is carrying out
ReportedDead == {reaper.dead[i] : i \in 1..Len(reaper.dead)}
ReportedAlive == reaper.visited \ ReportedDead
\* the del of close_session raises KeyError in this step of the cleanup thread
SweepError == reaper.pc = "del" /\ Head(reaper.dead) \notin Keys(sessions)

\* C30: the closing phase of a cleanup sweep leaves every session that
\* reported alive in the map and untouched, and when the sweep ends without
\* error no session that reported not-alive is left in the map.
C30_SweepRemovesOnlyDead ==
    [][(reaper' # reaper /\ reaper.pc \in {"close", "del"}) =>
          /\ \A id \in ReportedAlive :
                id \in Keys(sessions) =>
                   (id \in Keys(sessions') /\ Untouched(Lookup(sessions, id)))
          /\ (reaper'.pc = "sleep" /\ ~SweepError) =>
                \A id \in ReportedDead : id \notin Keys(sessions')]_vars

\* C31: a write_input or a resize on an active session whose shell process
\* has exited returns false and leaves the session inactive; the request is
\* answered without an exception, the session map is unchanged and no other
\* session changes.
C31_DeadProcessDegrades ==
    [][(resp'.op \in {"input", "resize"} /\ Served # NoObj
        /\ sess[Served].active /\ shell[Served] \notin Alive) =>
          /\ ~resp'.success
          /\ resp'.error = ""
          /\ ~sess'[Served].active
          /\ sessions' = sessions
          /\ \A p \in 1..nobj : p # Served => Untouched(p)]_vars

\* C32: in every reachable state the output buffer of every session holds at
\* most QueueMaxsize chunks (the maxsize of its queue), however the steps of
\* the output thread and the polls of read_output interleave.
C32_BufferBounded ==
    \A o \in 1..nobj : Len(sess[o].output_buffer) <= QueueMaxsize

\* C32 witness: the shell has written more chunks than the buffer holds, a
\* poll has taken some of them and the buffer is full again
C32_Witness ==
    /\ Len(sess[1].output_buffer) = QueueMaxsize
    /\ log.emitted[1] = MaxChunks
    /\ Len(log.delivered[1]) >= 1

\* the session object o is live: active, its descriptor and its pid are its
\* own, its shell process has not exited, and its last activity lies within
\* the idle timeout
Live(o) ==
    /\ sess[o].active
    /\ fds[sess[o].master_fd] = o
    /\ pids[sess[o].pid] = o
    /\ shell[o] \in Alive
    /\ now - sess[o].last_activity <= IdleTimeout

\* C33: no step of the cleanup thread closes or removes a session that is
\* live at that step: a live session in the session map is still in the map
\* after the step, with its fields, its descriptor and its shell as they were;
\* so whatever a tick closes was inactive, dead or idle past the timeout at
\* some point in the tick.
C33_ReaperSparesLive ==
    [][reaper' # reaper =>
          \A id \in Keys(sessions) :
             Live(Lookup(sessions, id)) =>
                (id \in Keys(sessions') /\ Untouched(Lookup(sessions, id)))]_vars

\* the session of object o is in the session map and is_alive reports it not
\* alive: its active flag is false (the shell exited and the output thread or
\* a write noticed, or it was closed) or it is idle past the timeout
NotAlive(o) ==
    /\ nobj >= o
    /\ sess[o].session_id \in Keys(sessions)
    /\ (~sess[o].active \/ now - sess[o].last_activity > IdleTimeout)

\* C34: with the cleanup thread scheduled and no client call required, every
\* session that has become not-alive eventually leaves the session map, and
\* the cleanup thread returns to its sleep again and again: its loop never
\* ends and no tick lasts forever.
C34_NotAliveRemoved ==
    /\ \A o \in 1..MaxCreate :
          NotAlive(o) ~> (sess[o].session_id \notin Keys(sessions))
    /\ []<>(reaper.pc = "sleep")

\* C35: every answer of api/terminal/create has success true exactly when it
\* carries a session id, and the id of a successful answer is a key of the
\* session map whose session has that id, is active and has an output thread
\* that has not ended.
C35_CreateReturnsLiveSession ==
    [][resp'.op = "create" =>
          /\ resp'.success <=> resp'.session_id # NoId
          /\ resp'.success =>
                /\ resp'.session_id \in Keys(sessions')
                /\ LET o == Lookup(sessions', resp'.session_id)
                   IN /\ sess'[o].session_id = resp'.session_id
                      /\ sess'[o].active
                      /\ pump'[o].pc \in {"loop", "select", "put"}]_vars

\* C35 witness: a create has just succeeded after an earlier create had failed
C35_Witness ==
    /\ resp.op = "create" /\ resp.success
    /\ resp.session_id \in Keys(sessions)
    /\ session_counter > nobj

\* the text is the word active with nothing but white space before and after
Trimmed(out) ==
    \E i \in 1..Len(out) :
        /\ i + Len(Active) - 1 <= Len(out)
        /\ SubSeq(out, i, i + Len(Active) - 1) = Active
        /\ \A j \in 1..Len(out) : (j < i \/ j >= i + Len(Active)) => IsSpace(out[j])
\* the service query completed with return code 0 and printed active
QueryOk(q) == q.kind = "result" /\ q.returncode = 0 /\ Trimmed(q.stdout)

\* C38: the status check never raises and returns true exactly when its
\* query exits with code 0 and prints active, white space around it aside: the
\* status endpoint answers without an exception and with ssh_active equal to
\* that, false for a timeout or a failure of the query included, and on_loaded
\* sets ssh_status when the query says so.
C38_StatusCheck ==
    [][/\ resp'.op = "status" =>
             (resp'.error = "" /\ resp'.active = QueryOk(plugin'.query))
       /\ (plugin.pc = "new" /\ plugin'.pc = "loading" /\ QueryOk(plugin'.query)) =>
             plugin'.ssh_status]_vars

\* C38 witness: the status endpoint answered ssh_active true for an output
\* that had to be trimmed
C38_Witness ==
    /\ resp.op = "status" /\ resp.active
    /\ plugin.query.stdout # Active

\* C37: while the ready flag is false no request is inside a handler and no
\* session exists; every request answered while it is false gets 503 and
\* leaves the session map, the sessions, their shells and output threads
\* alone; the flag changes only in the last step of on_loaded, then to true,
\* and never back, on_unload included.
C37_NothingServedBeforeReady ==
    /\ [](~plugin.ready =>
             /\ \A a \in Api : api[a].pc = "idle"
             /\ sessions = EmptyDict /\ nobj = 0)
    /\ [][(~plugin.ready /\ resp'.op # "none") =>
             /\ resp'.error = "503"
             /\ UNCHANGED <<sessions, session_counter, nobj, sess, fds, pids, shell, pump,
                            api, log>>]_vars
    /\ [][plugin'.ready # plugin.ready =>
             (plugin.pc = "loading" /\ plugin'.pc = "loaded" /\ plugin'.ready)]_vars

\* C37 witness: a request was turned away with 503 while on_loaded had done
\* its status check and had not yet set the flag
C37_Witness ==
    /\ resp.op = "unavailable" /\ resp.error = "503"
    /\ plugin.pc = "loading" /\ ~plugin.ready

\* C36: when on_unload returns, no create_session having run since it
\* started, the session map is empty and every session whose id was in the
\* map when on_unload started is closed: its active flag is false and its
\* shell process has exited.
C36_UnloadClosesAll ==
    [][(unloader.pc = "close" /\ unloader'.pc = "done") =>
          /\ sessions' = EmptyDict
          /\ \A o \in 1..nobj :
                InList(sess[o].session_id, unloader.keys) =>
                   (~sess'[o].active /\ shell'[o] \notin Alive)]_vars

====
